---- MODULE Spec2Model ----
(***************************************************************************)
(* Model of the MCP server for N8N workflows (src/src/index.ts).           *)
(*                                                                         *)
(* Strings are sequences of one-character strings, so that includes,       *)
(* endsWith, startsWith, slice, String(), URLSearchParams.toString() and   *)
(* the URL parser are computed character by character.                     *)
(***************************************************************************)
EXTENDS Integers, Sequences, FiniteSets, TLC

(***************************************************************************)
(* Bounds of the model.                                                    *)
(***************************************************************************)
MaxHostPieces == 2   \* pieces appended to the base host in N8N_HOST
MaxInFlight == 3     \* protocol requests in flight at once (SpecConc)
MaxFetches == 3      \* outbound HTTP requests issued in one run

(***************************************************************************)
(* JavaScript string primitives.                                           *)
(***************************************************************************)
StartsWith(s, p) ==
  /\ Len(p) <= Len(s)
  /\ SubSeq(s, 1, Len(p)) = p

EndsWith(s, p) ==
  /\ Len(p) <= Len(s)
  /\ SubSeq(s, Len(s) - Len(p) + 1, Len(s)) = p

Includes(s, p) ==
  \E k \in 0..(Len(s) - Len(p)) : SubSeq(s, k + 1, k + Len(p)) = p

\* s.slice(k): the string from index k (0-based) on
Slice(s, k) == SubSeq(s, k + 1, Len(s))

\* index (1-based) of the first occurrence of character c in s, 0 if none
IndexOfChar(s, c) ==
  IF \E k \in 1..Len(s) : s[k] = c
  THEN CHOOSE k \in 1..Len(s) : s[k] = c /\ \A j \in 1..(k - 1) : s[j] # c
  ELSE 0

RECURSIVE Join(_, _)
Join(ss, sep) ==
  IF ss = <<>> THEN <<>>
  ELSE IF Len(ss) = 1 THEN Head(ss)
  ELSE Head(ss) \o sep \o Join(Tail(ss), sep)

\* s.split(c) for a one-character separator
RECURSIVE Split(_, _)
Split(s, c) ==
  LET k == IndexOfChar(s, c) IN
  IF k = 0 THEN <<s>>
  ELSE <<SubSeq(s, 1, k - 1)>> \o Split(Slice(s, k), c)

Digit(d) == <<"0", "1", "2", "3", "4", "5", "6", "7", "8", "9">>[d + 1]

RECURSIVE NatToStr(_)
NatToStr(n) ==
  IF n < 10 THEN <<Digit(n)>> ELSE NatToStr(n \div 10) \o <<Digit(n % 10)>>

\* String(n) for an integer n
NumToStr(n) == IF n < 0 THEN <<"-">> \o NatToStr(0 - n) ELSE NatToStr(n)

MathMin(a, b) == IF a < b THEN a ELSE b

(***************************************************************************)
(* JavaScript values of an argument bag and of a JSON body.                *)
(***************************************************************************)
Undef == [t |-> "undef", s |-> <<>>, n |-> 0, b |-> FALSE]
Null == [t |-> "null", s |-> <<>>, n |-> 0, b |-> FALSE]
Str(x) == [t |-> "str", s |-> x, n |-> 0, b |-> FALSE]
Num(x) == [t |-> "num", s |-> <<>>, n |-> x, b |-> FALSE]
Bool(x) == [t |-> "bool", s |-> <<>>, n |-> 0, b |-> x]
EmptyArr == [t |-> "arr", s |-> <<>>, n |-> 0, b |-> FALSE]
EmptyObj == [t |-> "obj", s |-> <<>>, n |-> 0, b |-> FALSE]

\* String(v)
ToStr(v) ==
  CASE v.t = "undef" -> <<"u", "n", "d", "e", "f", "i", "n", "e", "d">>
    [] v.t = "null" -> <<"n", "u", "l", "l">>
    [] v.t = "str" -> v.s
    [] v.t = "num" -> NumToStr(v.n)
    [] v.t = "bool" -> IF v.b THEN <<"t", "r", "u", "e">>
                       ELSE <<"f", "a", "l", "s", "e">>
    [] v.t = "arr" -> <<>>
    [] v.t = "obj" -> <<"[", "o", "b", "j", "e", "c", "t", " ",
                        "O", "b", "j", "e", "c", "t", "]">>

\* the truthiness of v: Boolean(v), !!v
Truthy(v) ==
  CASE v.t = "undef" -> FALSE
    [] v.t = "null" -> FALSE
    [] v.t = "str" -> v.s # <<>>
    [] v.t = "num" -> v.n # 0
    [] v.t = "bool" -> v.b
    [] v.t = "arr" -> TRUE
    [] v.t = "obj" -> TRUE

\* JSON.stringify(v) of a defined value
JsonValue(v) ==
  CASE v.t = "str" -> <<"\"">> \o v.s \o <<"\"">>
    [] v.t = "arr" -> <<"[", "]">>
    [] v.t = "obj" -> <<"{", "}">>
    [] OTHER -> ToStr(v)

(***************************************************************************)
(* URLSearchParams and the WHATWG URL parser.                              *)
(***************************************************************************)
\* the application/x-www-form-urlencoded serialisation of one character
EncChar(c) ==
  CASE c = "&" -> <<"%", "2", "6">>
    [] c = "=" -> <<"%", "3", "D">>
    [] c = "/" -> <<"%", "2", "F">>
    [] c = "?" -> <<"%", "3", "F">>
    [] c = "," -> <<"%", "2", "C">>
    [] c = ":" -> <<"%", "3", "A">>
    [] c = "%" -> <<"%", "2", "5">>
    [] c = "[" -> <<"%", "5", "B">>
    [] c = "]" -> <<"%", "5", "D">>
    [] c = " " -> <<"+">>
    [] OTHER -> <<c>>

RECURSIVE FormEncode(_)
FormEncode(s) ==
  IF s = <<>> THEN <<>> ELSE EncChar(Head(s)) \o FormEncode(Tail(s))

\* searchParams.set(k, v) on a list of <<key, value>> pairs: the first pair
\* named k takes the value and the others named k go, or the pair is appended
SearchParamsSet(sp, k, v) ==
  IF \E j \in 1..Len(sp) : sp[j][1] = k
  THEN LET first == CHOOSE j \in 1..Len(sp) :
                      sp[j][1] = k /\ \A h \in 1..(j - 1) : sp[h][1] # k
           keep == SelectSeq([j \in 1..Len(sp) |-> <<j, sp[j]>>],
                             LAMBDA e : e[1] = first \/ e[2][1] # k)
       IN [j \in 1..Len(keep) |->
             IF keep[j][1] = first THEN <<k, v>> ELSE keep[j][2]]
  ELSE Append(sp, <<k, v>>)

\* searchParams.toString()
SearchParamsToString(sp) ==
  Join([j \in 1..Len(sp) |->
          FormEncode(sp[j][1]) \o <<"=">> \o FormEncode(sp[j][2])], <<"&">>)

\* the query of a URL string: what follows its first '?', <<>> if none
QueryOf(url) ==
  LET k == IndexOfChar(url, "?") IN IF k = 0 THEN <<>> ELSE Slice(url, k)

HasQuery(url) == IndexOfChar(url, "?") # 0

\* the <<key, value>> pairs a server reads from the query of a URL string
\* (percent-encoded as sent)
QueryPairs(url) ==
  LET q == QueryOf(url)
      parts == IF q = <<>> THEN <<>> ELSE Split(q, "&")
  IN [j \in 1..Len(parts) |->
        LET e == IndexOfChar(parts[j], "=") IN
        IF e = 0 THEN <<parts[j], <<>>>>
        ELSE <<SubSeq(parts[j], 1, e - 1), Slice(parts[j], e)>>]

QueryKeys(url) == {QueryPairs(url)[j][1] : j \in 1..Len(QueryPairs(url))}

\* the values sent under key k
QueryValues(url, k) ==
  {QueryPairs(url)[j][2] :
     j \in {h \in 1..Len(QueryPairs(url)) : QueryPairs(url)[h][1] = k}}

\* new URL(uri).pathname for a URI of a non-special scheme such as note:
Pathname(uri) ==
  LET c == IndexOfChar(uri, ":")
      rest == Slice(uri, c)
      afterAuth == IF StartsWith(rest, <<"/", "/">>)
                   THEN LET r2 == Slice(rest, 2)
                            k == IndexOfChar(r2, "/")
                        IN IF k = 0 THEN <<>> ELSE Slice(r2, k - 1)
                   ELSE rest
      q == IndexOfChar(afterAuth, "?")
      noQuery == IF q = 0 THEN afterAuth ELSE SubSeq(afterAuth, 1, q - 1)
      h == IndexOfChar(noQuery, "#")
  IN IF h = 0 THEN noQuery ELSE SubSeq(noQuery, 1, h - 1)

\* s.replace(/^\//, '')
StripLeadingSlash(s) == IF StartsWith(s, <<"/">>) THEN Slice(s, 1) ELSE s

(***************************************************************************)
(* Environment configuration and the note store.                           *)
(***************************************************************************)
DefaultHost == <<"h", "t", "t", "p", ":", "/", "/", "l", "o", "c", "a", "l",
    "h", "o", "s", "t", ":", "5", "6", "7", "8">>
DefaultApiKey == <<"n", "8", "n">>
ApiV1 == <<"/", "a", "p", "i", "/", "v", "1">>

\* process.env.X || fallback: an unset or empty variable takes the fallback
EnvOr(env, fallback) == IF env = <<>> THEN fallback ELSE env

InitialNotes ==
  [id \in {<<"1">>, <<"2">>} |->
     IF id = <<"1">>
     THEN [title |-> <<"F", "i", "r", "s", "t", " ", "N", "o", "t", "e">>,
         content |-> <<"T", "h", "i", "s", " ", "i", "s", " ", "n", "o", "t",
             "e", " ", "1">>]
     ELSE [title |-> <<"S", "e", "c", "o", "n", "d", " ", "N", "o", "t",
         "e">>, content |-> <<"T", "h", "i", "s", " ", "i", "s", " ", "n",
             "o", "t", "e", " ", "2">>]]

\* the property names every object literal inherits from Object.prototype
ObjectPrototypeKeys ==
  {<<"c", "o", "n", "s", "t", "r", "u", "c", "t", "o", "r">>, <<"t", "o",
      "S", "t", "r", "i", "n", "g">>, <<"v", "a", "l", "u", "e", "O", "f">>,
          <<"h", "a", "s", "O", "w", "n", "P", "r", "o", "p", "e", "r", "t",
              "y">>,
   <<"_", "_", "p", "r", "o", "t", "o", "_", "_">>}

\* store[id]: an own property, else an inherited one (a function or object,
\* truthy, with no content property), else undefined
NoteLookup(store, id) ==
  IF id \in DOMAIN store
    THEN [truthy |-> TRUE, hasContent |-> TRUE, content |-> store[id].content]
  ELSE IF id \in ObjectPrototypeKeys
    THEN [truthy |-> TRUE, hasContent |-> FALSE, content |-> <<>>]
  ELSE [truthy |-> FALSE, hasContent |-> FALSE, content |-> <<>>]

(***************************************************************************)
(* Argument bags: a bag maps every field name to its value, Undef for a    *)
(* field the caller left out.                                              *)
(***************************************************************************)
FieldOrder ==
  <<"workflowId", "name", "nodes", "connections", "active", "tags", "limit",
    "cursor", "includeData", "status", "credentialTypeName", "type", "data">>

Fields == {FieldOrder[j] : j \in 1..Len(FieldOrder)}

FieldChars(f) ==
  CASE f = "workflowId" -> <<"w", "o", "r", "k", "f", "l", "o", "w", "I",
      "d">>
    [] f = "name" -> <<"n", "a", "m", "e">>
    [] f = "nodes" -> <<"n", "o", "d", "e", "s">>
    [] f = "connections" -> <<"c", "o", "n", "n", "e", "c", "t", "i", "o",
        "n", "s">>
    [] f = "active" -> <<"a", "c", "t", "i", "v", "e">>
    [] f = "tags" -> <<"t", "a", "g", "s">>
    [] f = "limit" -> <<"l", "i", "m", "i", "t">>
    [] f = "cursor" -> <<"c", "u", "r", "s", "o", "r">>
    [] f = "includeData" -> <<"i", "n", "c", "l", "u", "d", "e", "D", "a",
        "t", "a">>
    [] f = "status" -> <<"s", "t", "a", "t", "u", "s">>
    [] f = "credentialTypeName" -> <<"c", "r", "e", "d", "e", "n", "t", "i",
        "a", "l", "T", "y", "p", "e", "N", "a", "m", "e">>
    [] f = "type" -> <<"t", "y", "p", "e">>
    [] f = "data" -> <<"d", "a", "t", "a">>

EmptyBag == [f \in Fields |-> Undef]

\* request.params.arguments?.f
Arg(hasArgs, a, f) == IF hasArgs THEN a[f] ELSE Undef

\* the fields a bag carries
Supplied(a) == {f \in Fields : a[f] # Undef}

\* { ...obj }: a fresh object with the own properties of obj; spreading
\* undefined gives {}
Spread(hasArgs, a) == IF hasArgs THEN a ELSE EmptyBag

\* JSON.stringify(obj): the members of the object text in property order,
\* a property whose value is undefined is left out
JsonStringify(obj) ==
  LET present == SelectSeq(FieldOrder, LAMBDA f : obj[f] # Undef) IN
  [j \in 1..Len(present) |->
     <<FieldChars(present[j]), JsonValue(obj[present[j]])>>]

BodyKeys(body) == {body[j][1] : j \in 1..Len(body)}

(***************************************************************************)
(* Domain operations: each one shapes the call it makes to fetchWithAuth.  *)
(***************************************************************************)
FetchCall(endpoint, method, hasBody, body) ==
  [endpoint |-> endpoint, method |-> method, hasBody |-> hasBody,
   body |-> body]

NoCall == FetchCall(<<>>, "", FALSE, <<>>)

\* mutant: the test is always true
IsSetAlways(v) == TRUE

\* v !== undefined
IsSet(v) == v # Undef

\* the limit query parameter: String(Math.min(params.limit, 25))
LimitParam(limit) == NumToStr(MathMin(limit.n, 25))

\* if (params?.limit): the limit is sent only when it is truthy
LimitIsSent(limit) == Truthy(limit)

listWorkflows(hasParams, params) ==
  LET active == Arg(hasParams, params, "active")
      tags == Arg(hasParams, params, "tags")
      limit == Arg(hasParams, params, "limit")
      cursor == Arg(hasParams, params, "cursor")
      sp0 == <<>>
      sp1 == IF IsSet(active)
             THEN SearchParamsSet(sp0, <<"a", "c", "t", "i", "v", "e">>,
                 ToStr(active)) ELSE sp0
      sp2 == IF Truthy(tags)
             THEN SearchParamsSet(sp1, <<"t", "a", "g", "s">>,
                 ToStr(tags)) ELSE sp1
      sp3 == IF LimitIsSent(limit)
             THEN SearchParamsSet(sp2, <<"l", "i", "m", "i", "t">>,
                 LimitParam(limit)) ELSE sp2
      sp4 == IF Truthy(cursor)
             THEN SearchParamsSet(sp3, <<"c", "u", "r", "s", "o", "r">>,
                 ToStr(cursor)) ELSE sp3
      qs == SearchParamsToString(sp4)
  IN FetchCall(<<"/", "w", "o", "r", "k", "f", "l", "o", "w",
      "s">> \o (IF qs # <<>> THEN <<"?">> \o qs ELSE <<>>),
               "GET", FALSE, <<>>)

getWorkflow(id) == FetchCall(<<"/", "w", "o", "r", "k", "f", "l", "o", "w",
    "s", "/">> \o id, "GET", FALSE, <<>>)

createWorkflow(data) ==
  FetchCall(<<"/", "w", "o", "r", "k", "f", "l", "o", "w", "s">>, "POST",
      TRUE, JsonStringify(data))

updateWorkflow(id, data) ==
  FetchCall(<<"/", "w", "o", "r", "k", "f", "l", "o", "w", "s", "/">> \o id,
      "PUT", TRUE, JsonStringify(data))

getWorkflowExecutions(id, params) ==
  LET sp0 == SearchParamsSet(<<>>, <<"w", "o", "r", "k", "f", "l", "o", "w",
      "I", "d">>, id)
      sp1 == IF IsSet(params["includeData"])
             THEN SearchParamsSet(sp0, <<"i", "n", "c", "l", "u", "d", "e",
                 "D", "a", "t", "a">>,
                                  ToStr(params["includeData"]))
             ELSE sp0
      sp2 == IF Truthy(params["status"])
             THEN SearchParamsSet(sp1, <<"s", "t", "a", "t", "u", "s">>,
                 ToStr(params["status"]))
             ELSE sp1
      sp3 == IF LimitIsSent(params["limit"])
             THEN SearchParamsSet(sp2, <<"l", "i", "m", "i", "t">>,
                 LimitParam(params["limit"]))
             ELSE sp2
      sp4 == IF Truthy(params["cursor"])
             THEN SearchParamsSet(sp3, <<"c", "u", "r", "s", "o", "r">>,
                 ToStr(params["cursor"]))
             ELSE sp3
      queryString == SearchParamsToString(sp4)
  IN FetchCall(<<"/", "e", "x", "e", "c", "u", "t", "i", "o", "n", "s">>
                 \o (IF queryString # <<>> THEN <<"?">> \o queryString
                     ELSE <<>>),
               "GET", FALSE, <<>>)

\* mutant: the two sub-paths are swapped
activateWorkflowSwapped(id, active) ==
  FetchCall(<<"/", "w", "o", "r", "k", "f", "l", "o", "w", "s", "/">> \o id
              \o <<"/">>
              \o (IF active
                  THEN <<"d", "e", "a", "c", "t", "i", "v", "a", "t", "e">>
                  ELSE <<"a", "c", "t", "i", "v", "a", "t", "e">>),
            "POST", FALSE, <<>>)

activateWorkflow(id, active) ==
  FetchCall(<<"/", "w", "o", "r", "k", "f", "l", "o", "w", "s",
      "/">> \o id \o <<"/">>
              \o (IF active THEN <<"a", "c", "t", "i", "v", "a", "t",
                  "e">> ELSE <<"d", "e", "a", "c", "t", "i", "v", "a", "t",
                      "e">>),
            "POST", FALSE, <<>>)

createCredential(data) ==
  FetchCall(<<"/", "c", "r", "e", "d", "e", "n", "t", "i", "a", "l", "s">>,
      "POST", TRUE, JsonStringify(data))

getCredentialSchema(type) ==
  FetchCall(<<"/", "c", "r", "e", "d", "e", "n", "t", "i", "a", "l", "s",
      "/", "s", "c", "h", "e", "m", "a", "/">> \o type, "GET", FALSE, <<>>)

(***************************************************************************)
(* fetchWithAuth: the request it issues and what it makes of the response. *)
(***************************************************************************)
\* mutant: no trailing separator is added
HostUrlNoSeparator(host) ==
  IF ~Includes(host, ApiV1) THEN host \o ApiV1 ELSE host

\* the base host with the API version segment and a trailing separator
HostUrl(host) ==
  LET withApi == IF ~Includes(host, ApiV1) THEN host \o ApiV1 ELSE host
  IN IF ~EndsWith(withApi, <<"/">>) THEN withApi \o <<"/">> ELSE withApi

\* the endpoint without its leading separator
EndpointPath(endpoint) ==
  IF StartsWith(endpoint, <<"/">>) THEN Slice(endpoint, 1) ELSE endpoint

FetchUrl(host, endpoint) == HostUrl(host) \o EndpointPath(endpoint)

HttpRequest(url, method, hasBody, body, apiKey) ==
  [url |-> url, method |-> method, hasBody |-> hasBody, body |-> body,
   apiKey |-> apiKey, contentType |-> "application/json"]

NoRequest == HttpRequest(<<>>, "", FALSE, <<>>, <<>>)

Thrown(message) == [throws |-> TRUE, error |-> message]

NotThrown == [throws |-> FALSE, error |-> <<>>]

\* fetchWithAuth up to fetch(url, ...): the request issued, unless it throws
FetchWithAuthStart(host, apiKey, call) ==
  IF apiKey = <<>>
  THEN [thrown |-> Thrown(<<"N", "8", "N", "_", "A", "P", "I", "_", "K", "E",
      "Y", " ", "i", "s", " ", "r", "e", "q", "u", "i", "r", "e", "d">>),
          req |-> NoRequest]
  ELSE [thrown |-> NotThrown,
        req |-> HttpRequest(FetchUrl(host, call.endpoint),
                            IF call.method = "" THEN "GET" ELSE call.method,
                            call.hasBody, call.body, apiKey)]

\* a response of the remote API; json says whether its body parses as JSON,
\* data holds the id, name and type properties of the parsed object
HttpResponse(status, statusText, json, id, name, type) ==
  [status |-> status, statusText |-> statusText, json |-> json,
   data |-> [id |-> id, name |-> name, type |-> type]]

NoResponse == HttpResponse(0, <<>>, FALSE, Undef, Undef, Undef)

\* mutant: only a 5xx status is a failure
ResponseOkBelow500(resp) == resp.status >= 200 /\ resp.status <= 499

\* response.ok
ResponseOk(resp) == resp.status >= 200 /\ resp.status <= 299

\* what fetchWithAuth throws once the response is in, if it throws
FetchWithAuthThrown(resp) ==
  IF ~ResponseOk(resp)
    THEN Thrown(<<"N", "8", "N", " ", "A", "P", "I", " ", "e", "r", "r", "o",
        "r", ":", " ">> \o resp.statusText)
  ELSE IF ~resp.json
    THEN Thrown(<<"U", "n", "e", "x", "p", "e", "c", "t", "e", "d", " ", "e",
        "n", "d", " ", "o", "f", " ", "J", "S", "O", "N", " ", "i", "n", "p",
            "u", "t">>)
  ELSE NotThrown

(***************************************************************************)
(* The CallToolRequestSchema handler, before and after its await.          *)
(***************************************************************************)
Plan(thrown, call, active, args) ==
  [thrown |-> thrown, call |-> call, active |-> active, args |-> args]

WorkflowIdRequired == Thrown(<<"W", "o", "r", "k", "f", "l", "o", "w", " ",
    "I", "D", " ", "i", "s", " ", "r", "e", "q", "u", "i", "r", "e", "d">>)

WorkflowFieldsRequired == Thrown(<<"N", "a", "m", "e", ",", " ", "n", "o",
    "d", "e", "s", ",", " ", "a", "n", "d", " ", "c", "o", "n", "n", "e",
        "c", "t", "i", "o", "n", "s", " ", "a", "r", "e", " ", "r", "e", "q",
            "u", "i", "r", "e", "d">>)

CredentialFieldsRequired == Thrown(<<"N", "a", "m", "e", ",", " ", "t", "y",
    "p", "e", ",", " ", "a", "n", "d", " ", "d", "a", "t", "a", " ", "a",
        "r", "e", " ", "r", "e", "q", "u", "i", "r", "e", "d">>)

CredentialTypeRequired == Thrown(<<"C", "r", "e", "d", "e", "n", "t", "i",
    "a", "l", " ", "t", "y", "p", "e", " ", "n", "a", "m", "e", " ", "i",
        "s", " ", "r", "e", "q", "u", "i", "r", "e", "d">>)

UnknownTool == Thrown(<<"U", "n", "k", "n", "o", "w", "n", " ", "t", "o",
    "o", "l">>)

\* String(request.params.arguments?.workflowId) and the like
RequiredId(hasArgs, a, f) == ToStr(Arg(hasArgs, a, f))

\* mutant: the identifier is not deleted from the copy
UpdateDataKeepsId(hasArgs, a) == [copy |-> Spread(hasArgs, a), args |-> a]

\* const updateData = { ...arguments }; delete updateData.workflowId:
\* the copy without its workflowId, and the argument object after the delete
UpdateData(hasArgs, a) ==
  [copy |-> [Spread(hasArgs, a) EXCEPT !["workflowId"] = Undef], args |-> a]

\* the handler up to its await: the validation error it throws or the call
\* the domain operation makes, and the caller's argument object afterwards
CallToolStart(tool, hasArgs, a) ==
  CASE tool = "list_workflows" ->
         Plan(NotThrown, listWorkflows(hasArgs, a), FALSE, a)
    [] tool = "get_workflow" ->
         LET workflowId == RequiredId(hasArgs, a, "workflowId") IN
         IF workflowId = <<>>
         THEN Plan(WorkflowIdRequired, NoCall, FALSE, a)
         ELSE Plan(NotThrown, getWorkflow(workflowId), FALSE, a)
    [] tool = "create_workflow" ->
         IF \/ ~Truthy(Arg(hasArgs, a, "name"))
            \/ ~Truthy(Arg(hasArgs, a, "nodes"))
            \/ ~Truthy(Arg(hasArgs, a, "connections"))
         THEN Plan(WorkflowFieldsRequired, NoCall, FALSE, a)
         ELSE Plan(NotThrown, createWorkflow(a), FALSE, a)
    [] tool = "update_workflow" ->
         LET workflowId == RequiredId(hasArgs, a, "workflowId")
             updateData == UpdateData(hasArgs, a)
         IN IF workflowId = <<>>
            THEN Plan(WorkflowIdRequired, NoCall, FALSE, a)
            ELSE Plan(NotThrown, updateWorkflow(workflowId, updateData.copy),
                      FALSE, updateData.args)
    [] tool = "get_workflow_executions" ->
         LET workflowId == RequiredId(hasArgs, a, "workflowId")
             params == [EmptyBag EXCEPT
                          !["includeData"] = Arg(hasArgs, a, "includeData"),
                          !["status"] = Arg(hasArgs, a, "status"),
                          !["limit"] = Arg(hasArgs, a, "limit"),
                          !["cursor"] = Arg(hasArgs, a, "cursor")]
         IN IF workflowId = <<>>
            THEN Plan(WorkflowIdRequired, NoCall, FALSE, a)
            ELSE Plan(NotThrown, getWorkflowExecutions(workflowId, params),
                      FALSE, a)
    [] tool = "activate_workflow" ->
         LET workflowId == RequiredId(hasArgs, a, "workflowId")
             active == Truthy(Arg(hasArgs, a, "active"))
         IN IF workflowId = <<>>
            THEN Plan(WorkflowIdRequired, NoCall, active, a)
            ELSE Plan(NotThrown, activateWorkflow(workflowId, active),
                      active, a)
    [] tool = "create_credential" ->
         IF \/ ~Truthy(Arg(hasArgs, a, "name"))
            \/ ~Truthy(Arg(hasArgs, a, "type"))
            \/ ~Truthy(Arg(hasArgs, a, "data"))
         THEN Plan(CredentialFieldsRequired, NoCall, FALSE, a)
         ELSE Plan(NotThrown, createCredential(a), FALSE, a)
    [] tool = "get_credential_schema" ->
         LET credentialTypeName ==
               RequiredId(hasArgs, a, "credentialTypeName")
         IN IF credentialTypeName = <<>>
            THEN Plan(CredentialTypeRequired, NoCall, FALSE, a)
            ELSE Plan(NotThrown, getCredentialSchema(credentialTypeName),
                      FALSE, a)
    [] OTHER -> Plan(UnknownTool, NoCall, FALSE, a)

\* JSON.stringify(x, null, 2) of the parsed response object
JsonPretty(data) ==
  LET names == SelectSeq(<<"id", "name", "type">>,
                         LAMBDA f : data[f] # Undef)
      chars == [f \in {"id", "name", "type"} |->
                  CASE f = "id" -> <<"i", "d">> [] f = "name" -> <<"n", "a",
                      "m", "e">>
                    [] f = "type" -> <<"t", "y", "p", "e">>]
      lines == [j \in 1..Len(names) |->
                  <<" ", " ", "\"">> \o chars[names[j]] \o <<"\"", ":", " ">>
                    \o JsonValue(data[names[j]])]
  IN IF names = <<>> THEN <<"{", "}">>
     ELSE <<"{", "\n">> \o Join(lines, <<",", "\n">>) \o <<"\n", "}">>

\* the text of the content the handler returns for the parsed response
ResultText(tool, active, data) ==
  CASE tool = "create_workflow" ->
         <<"C", "r", "e", "a", "t", "e", "d", " ", "w", "o", "r", "k", "f",
             "l", "o", "w", " ">> \o ToStr(data.id) \o <<":",
                 " ">> \o ToStr(data.name)
    [] tool = "update_workflow" ->
         <<"U", "p", "d", "a", "t", "e", "d", " ", "w", "o", "r", "k", "f",
             "l", "o", "w", " ">> \o ToStr(data.id) \o <<":",
                 " ">> \o ToStr(data.name)
    [] tool = "activate_workflow" ->
         <<"W", "o", "r", "k", "f", "l", "o", "w",
             " ">> \o ToStr(data.id) \o <<" ">>
           \o (IF active THEN <<"a", "c", "t", "i", "v", "a", "t", "e",
               "d">> ELSE <<"d", "e", "a", "c", "t", "i", "v", "a", "t", "e",
                   "d">>)
    [] tool = "create_credential" ->
         <<"C", "r", "e", "a", "t", "e", "d", " ", "c", "r", "e", "d", "e",
             "n", "t", "i", "a", "l", " ">> \o ToStr(data.id) \o <<":", " ">>
           \o ToStr(data.name) \o <<" ", "(">> \o ToStr(data.type) \o <<")">>
    [] OTHER -> JsonPretty(data)

\* how a protocol request ends: an error for the caller, or a result
Outcome(st, text, hasText, mime) ==
  [st |-> st, text |-> text, hasText |-> hasText, mime |-> mime]

NoOutcome == Outcome("none", <<>>, FALSE, "")

Failure(message) == Outcome("error", message, TRUE, "")

\* the handler after its await
CallToolFinish(tool, active, resp) ==
  LET thrown == FetchWithAuthThrown(resp) IN
  IF thrown.throws THEN Failure(thrown.error)
  ELSE Outcome("ok", ResultText(tool, active, resp.data), TRUE, "text")

(***************************************************************************)
(* The ReadResourceRequestSchema handler.                                  *)
(***************************************************************************)
ReadResourceResult(store, uri) ==
  LET id == StripLeadingSlash(Pathname(uri))
      note == NoteLookup(store, id)
  IN IF ~note.truthy
     THEN Failure(<<"N", "o", "t", "e", " ">> \o id \o <<" ", "n", "o", "t",
         " ", "f", "o", "u", "n", "d">>)
     ELSE Outcome("ok", note.content, note.hasContent, "text/plain")

(***************************************************************************)
(* The state of the process.                                               *)
(***************************************************************************)
VARIABLES
  N8N_HOST,      \* the configured base host
  N8N_API_KEY,   \* the configured API key
  notes,         \* the note store
  proc,          \* "starting", "serving" or "exited"
  calls,         \* per slot, the protocol request being handled
  wire,          \* number of fetch() calls made so far
  passed         \* number of tool calls that reached their domain operation

vars == <<N8N_HOST, N8N_API_KEY, notes, proc, calls, wire, passed>>

Slots == 1..MaxInFlight

CallRecord(pc, kind, tool, uri, hasArgs, a, plan, req, sent, resp, outcome) ==
  [pc |-> pc, kind |-> kind, tool |-> tool, uri |-> uri,
   hasArgs |-> hasArgs, a |-> a, plan |-> plan, req |-> req, sent |-> sent,
   resp |-> resp, outcome |-> outcome]

NoPlan == Plan(NotThrown, NoCall, FALSE, EmptyBag)

IdleCall ==
  CallRecord("idle", "none", "", <<>>, FALSE, EmptyBag, NoPlan, NoRequest, 0,
             NoResponse, NoOutcome)

(***************************************************************************)
(* The values the environment, the callers and the remote API supply.      *)
(***************************************************************************)
EnvBase == <<"h", "t", "t", "p", ":", "/", "/", "h">>

HostPieces == {<<"/">>, ApiV1, <<"x">>}

RECURSIVE PieceStrings(_)
PieceStrings(k) ==
  IF k = 0 THEN {<<>>}
  ELSE PieceStrings(k - 1)
         \cup {s \o p : s \in PieceStrings(k - 1), p \in HostPieces}

\* the values of the N8N_HOST environment variable, <<>> when it is unset
EnvHosts == {<<>>} \cup {EnvBase \o s : s \in PieceStrings(MaxHostPieces)}

\* the values of the N8N_API_KEY environment variable, <<>> when it is unset
EnvKeys == {<<>>, <<"k", "1">>}

ToolRequest(tool, hasArgs, a) == [tool |-> tool, hasArgs |-> hasArgs, a |-> a]

IdValues == {Undef, Str(<<>>), Str(<<"4", "2">>)}

LimitValues == {Undef, Num(0), Num(1), Num(25), Num(26), Num(250)}

ListWorkflowsRequests ==
  {ToolRequest("list_workflows", FALSE, EmptyBag)}
    \cup {ToolRequest("list_workflows", TRUE,
                      [EmptyBag EXCEPT !["active"] = ac, !["tags"] = tg,
                                       !["limit"] = lm, !["cursor"] = cu]) :
            ac \in {Undef, Bool(TRUE), Bool(FALSE)},
            tg \in {Undef, Str(<<>>), Str(<<"a", ",", "b">>)},
            lm \in LimitValues,
            cu \in {Undef, Str(<<"n", "&", "t", "a", "g", "s", "=", "z">>)}}

ExecutionsRequests ==
  {ToolRequest("get_workflow_executions", FALSE, EmptyBag)}
    \cup {ToolRequest("get_workflow_executions", TRUE,
                      [EmptyBag EXCEPT !["workflowId"] = w]) :
            w \in IdValues}
    \cup {ToolRequest("get_workflow_executions", TRUE,
                      [EmptyBag EXCEPT !["workflowId"] = Str(<<"4", "2">>),
                                       !["includeData"] = inc,
                                       !["status"] = st, !["limit"] = lm,
                                       !["cursor"] = cu]) :
            inc \in {Undef, Bool(TRUE), Bool(FALSE)},
            st \in {Undef, Str(<<"e", "r", "r", "o", "r">>)},
            lm \in LimitValues,
            cu \in {Undef, Str(<<"n", "&", "l", "i", "m", "i", "t", "=",
                "9">>)}}

GetWorkflowRequests ==
  {ToolRequest("get_workflow", FALSE, EmptyBag)}
    \cup {ToolRequest("get_workflow", TRUE,
                      [EmptyBag EXCEPT !["workflowId"] = w]) : w \in IdValues}

CreateWorkflowRequests ==
  {ToolRequest("create_workflow", FALSE, EmptyBag)}
    \cup {ToolRequest("create_workflow", TRUE,
                      [EmptyBag EXCEPT !["name"] = nm, !["nodes"] = nd,
                                       !["connections"] = cn]) :
            nm \in {Undef, Str(<<>>), Str(<<"A">>)},
            nd \in {Undef, EmptyArr},
            cn \in {Undef, EmptyObj}}

UpdateWorkflowRequests ==
  {ToolRequest("update_workflow", FALSE, EmptyBag)}
    \cup {ToolRequest("update_workflow", TRUE,
                      [EmptyBag EXCEPT !["workflowId"] = w, !["name"] = nm,
                                       !["nodes"] = nd,
                                       !["connections"] = cn,
                                       !["active"] = ac]) :
            w \in IdValues,
            nm \in {Undef, Str(<<"B">>)},
            nd \in {Undef, EmptyArr},
            cn \in {Undef, EmptyObj},
            ac \in {Undef, Bool(FALSE)}}

ActivateRequests ==
  {ToolRequest("activate_workflow", FALSE, EmptyBag)}
    \cup {ToolRequest("activate_workflow", TRUE,
                      [EmptyBag EXCEPT !["workflowId"] = w,
                                       !["active"] = ac]) :
            w \in IdValues, ac \in {Undef, Bool(TRUE), Bool(FALSE)}}

CredentialRequests ==
  {ToolRequest("create_credential", FALSE, EmptyBag)}
    \cup {ToolRequest("create_credential", TRUE,
                      [EmptyBag EXCEPT !["name"] = nm, !["type"] = ty,
                                       !["data"] = dt]) :
            nm \in {Undef, Str(<<"c">>)},
            ty \in {Undef, Str(<<"g", "h">>)},
            dt \in {Undef, EmptyObj}}
    \cup {ToolRequest("get_credential_schema", FALSE, EmptyBag)}
    \cup {ToolRequest("get_credential_schema", TRUE,
                      [EmptyBag EXCEPT !["credentialTypeName"] = ty]) :
            ty \in {Undef, Str(<<>>), Str(<<"g", "h">>)}}

UnknownRequests == {ToolRequest("delete_workflow", TRUE, EmptyBag)}

ToolRequests ==
  ListWorkflowsRequests \cup ExecutionsRequests \cup GetWorkflowRequests
    \cup CreateWorkflowRequests \cup UpdateWorkflowRequests
    \cup ActivateRequests \cup CredentialRequests \cup UnknownRequests

NotePrefix == <<"n", "o", "t", "e", ":", "/", "/", "/">>

NoteKeys ==
  {<<"1">>, <<"2">>, <<"9", "9">>, <<>>, <<"c", "o", "n", "s", "t", "r", "u",
      "c", "t", "o", "r">>, <<"t", "o", "S", "t", "r", "i", "n", "g">>}

ResourceUris == {NotePrefix \o k : k \in NoteKeys}

Responses ==
  {HttpResponse(200, <<"O", "K">>, TRUE, Str(<<"4", "2">>), Str(<<"A">>),
      Str(<<"g", "h">>)),
   HttpResponse(200, <<"O", "K">>, TRUE, Num(7), Undef, Undef),
   HttpResponse(200, <<"O", "K">>, FALSE, Undef, Undef, Undef),
   HttpResponse(404, <<"N", "o", "t", " ", "F", "o", "u", "n", "d">>, TRUE,
       Undef, Undef, Undef),
   HttpResponse(500, <<"I", "n", "t", "e", "r", "n", "a", "l", " ", "S", "e",
       "r", "v", "e", "r", " ", "E", "r", "r", "o", "r">>, FALSE, Undef,
           Undef, Undef)}

\* the few requests and responses of the concurrent specification
ConcToolRequests ==
  {ToolRequest("get_workflow", TRUE,
               [EmptyBag EXCEPT !["workflowId"] = Str(<<"4", "2">>)]),
   ToolRequest("get_workflow", TRUE,
               [EmptyBag EXCEPT !["workflowId"] = Str(<<>>)]),
   ToolRequest("activate_workflow", TRUE,
               [EmptyBag EXCEPT !["workflowId"] = Str(<<"4", "2">>),
                                !["active"] = Bool(TRUE)]),
   ToolRequest("delete_workflow", TRUE, EmptyBag)}

ConcResourceUris == {NotePrefix \o k : k \in {<<"1">>, <<"9", "9">>}}

ConcResponses ==
  {HttpResponse(200, <<"O", "K">>, TRUE, Str(<<"4", "2">>), Str(<<"A">>),
      Undef),
   HttpResponse(500, <<"I", "n", "t", "e", "r", "n", "a", "l", " ", "S", "e",
       "r", "v", "e", "r", " ", "E", "r", "r", "o", "r">>, FALSE, Undef,
           Undef, Undef)}

(***************************************************************************)
(* Startup.                                                                *)
(***************************************************************************)
InitWith(hosts, keys) ==
  /\ N8N_HOST \in {EnvOr(h, DefaultHost) : h \in hosts}
  /\ N8N_API_KEY \in {EnvOr(k, DefaultApiKey) : k \in keys}
  /\ notes = InitialNotes
  /\ proc = "starting"
  /\ calls = [i \in Slots |-> IdleCall]
  /\ wire = 0
  /\ passed = 0

Init == InitWith(EnvHosts, EnvKeys)

InitConc == InitWith({<<>>}, {<<>>})

\* main(): server.connect(transport) resolves
Connect ==
  /\ proc = "starting"
  /\ proc' = "serving"
  /\ UNCHANGED <<N8N_HOST, N8N_API_KEY, notes, calls, wire, passed>>

\* main().catch: server.connect(transport) rejects, process.exit(1)
ConnectFails ==
  /\ proc = "starting"
  /\ proc' = "exited"
  /\ UNCHANGED <<N8N_HOST, N8N_API_KEY, notes, calls, wire, passed>>

(***************************************************************************)
(* Request handling.                                                       *)
(***************************************************************************)
\* mutant: after the first outbound request, results come from a cache
FetchesMadeCached(plan, start) ==
  IF plan.thrown.throws \/ start.thrown.throws \/ wire > 0 THEN 0 ELSE 1

\* the number of fetch() calls a started handler has made
FetchesMade(plan, start) ==
  IF plan.thrown.throws \/ start.thrown.throws THEN 0 ELSE 1

\* mutant: an error ends every request in flight
SettledFailsAll(cs, i, resp, out) ==
  [j \in DOMAIN cs |->
     IF j = i
       THEN [cs[j] EXCEPT !.pc = "done", !.resp = resp, !.outcome = out]
     ELSE IF out.st = "error" /\ cs[j].pc = "awaiting"
       THEN [cs[j] EXCEPT !.pc = "done", !.outcome = out]
     ELSE cs[j]]

\* the call records once the request in slot i has ended with outcome out
Settled(cs, i, resp, out) ==
  [cs EXCEPT ![i].pc = "done", ![i].resp = resp, ![i].outcome = out]

\* a tools/call request arrives in a free slot: the handler runs up to its
\* await, or to the error it throws before it
CallTool(i, r) ==
  /\ proc = "serving"
  /\ calls[i].pc = "idle"
  /\ wire < MaxFetches
  /\ LET plan == CallToolStart(r.tool, r.hasArgs, r.a)
         start == FetchWithAuthStart(N8N_HOST, N8N_API_KEY, plan.call)
         sent == FetchesMade(plan, start)
         rec == CallRecord("awaiting", "tool", r.tool, <<>>, r.hasArgs, r.a,
                           plan,
                           IF sent = 0 THEN NoRequest ELSE start.req,
                           sent, NoResponse, NoOutcome)
         received == [calls EXCEPT ![i] = rec]
     IN /\ calls' = IF plan.thrown.throws
                      THEN Settled(received, i, NoResponse,
                                   Failure(plan.thrown.error))
                    ELSE IF start.thrown.throws
                      THEN Settled(received, i, NoResponse,
                                   Failure(start.thrown.error))
                    ELSE received
        /\ wire' = wire + sent
        /\ passed' = passed + (IF plan.thrown.throws THEN 0 ELSE 1)
  /\ UNCHANGED <<N8N_HOST, N8N_API_KEY, notes, proc>>

\* the response of the remote API arrives: the handler resumes and ends
FetchCompletes(i, resp) ==
  /\ proc = "serving"
  /\ calls[i].pc = "awaiting"
  /\ calls' = Settled(calls, i, resp,
                      CallToolFinish(calls[i].tool, calls[i].plan.active,
                                     resp))
  /\ UNCHANGED <<N8N_HOST, N8N_API_KEY, notes, proc, wire, passed>>

\* a resources/read request arrives in a free slot and is answered at once
ReadResource(i, uri) ==
  /\ proc = "serving"
  /\ calls[i].pc = "idle"
  /\ LET rec == CallRecord("awaiting", "read", "", uri, FALSE, EmptyBag,
                           NoPlan, NoRequest, 0, NoResponse, NoOutcome)
     IN calls' = Settled([calls EXCEPT ![i] = rec], i, NoResponse,
                         ReadResourceResult(notes, uri))
  /\ UNCHANGED <<N8N_HOST, N8N_API_KEY, notes, proc, wire, passed>>

\* the handler's promise has settled: its result or error goes back to the
\* caller and the slot is free again
Reply(i) ==
  /\ proc = "serving"
  /\ calls[i].pc = "done"
  /\ calls' = [calls EXCEPT ![i] = IdleCall]
  /\ UNCHANGED <<N8N_HOST, N8N_API_KEY, notes, proc, wire, passed>>

Next ==
  \/ Connect
  \/ ConnectFails
  \/ \E r \in ToolRequests : CallTool(1, r)
  \/ \E resp \in Responses : FetchCompletes(1, resp)
  \/ \E uri \in ResourceUris : ReadResource(1, uri)
  \/ Reply(1)

Spec == Init /\ [][Next]_vars

NextConc ==
  \/ Connect
  \/ ConnectFails
  \/ \E i \in Slots : \E r \in ConcToolRequests : CallTool(i, r)
  \/ \E i \in Slots : \E resp \in ConcResponses : FetchCompletes(i, resp)
  \/ \E i \in Slots : \E uri \in ConcResourceUris : ReadResource(i, uri)
  \/ \E i \in Slots : Reply(i)

SpecConc == InitConc /\ [][NextConc]_vars

(***************************************************************************)
(* Properties.                                                             *)
(***************************************************************************)
\* the tool calls whose handler has run up to its await or its throw
Started(c) == c.kind = "tool" /\ c.pc \in {"awaiting", "done"}

\* the tool calls that made their outbound request
Forwarded(c) == Started(c) /\ c.sent = 1

RejectedWith(c, thrown) ==
  /\ c.pc = "done"
  /\ c.outcome = Failure(thrown.error)
  /\ c.sent = 0
  /\ c.req = NoRequest

\* C1: a get_workflow, update_workflow, get_workflow_executions or
\* activate_workflow call without a workflowId, and a get_credential_schema
\* call without a credentialTypeName, fails with the validation error of the
\* tool and issues no outbound request.
C1_MissingIdRejected ==
  \A i \in Slots :
    LET c == calls[i] IN
    /\ ( /\ Started(c)
         /\ c.tool \in {"get_workflow", "update_workflow",
                        "get_workflow_executions", "activate_workflow"}
         /\ Arg(c.hasArgs, c.a, "workflowId") = Undef )
       => RejectedWith(c, WorkflowIdRequired)
    /\ ( /\ Started(c)
         /\ c.tool = "get_credential_schema"
         /\ Arg(c.hasArgs, c.a, "credentialTypeName") = Undef )
       => RejectedWith(c, CredentialTypeRequired)

\* the list_workflows and get_workflow_executions calls that were forwarded
ListingForwarded(c) ==
  Forwarded(c) /\ c.tool \in {"list_workflows", "get_workflow_executions"}

\* C2: a list_workflows or get_workflow_executions call with an integer
\* limit sends limit=25 when the limit exceeds 25 and sends the limit
\* unchanged when it is at most 25, the limit 0 included.
C2_LimitClampedOrUnchanged ==
  \A i \in Slots :
    LET c == calls[i]
        limit == Arg(c.hasArgs, c.a, "limit")
    IN (ListingForwarded(c) /\ limit.t = "num")
       => QueryValues(c.req.url, <<"l", "i", "m", "i", "t">>)
            = {IF limit.n > 25 THEN <<"2", "5">> ELSE NumToStr(limit.n)}

FiltersOf(tool) ==
  IF tool = "list_workflows" THEN {"active", "tags", "limit", "cursor"}
  ELSE {"includeData", "status", "limit", "cursor"}

\* C3: the query string of a list_workflows or get_workflow_executions
\* request has no key for a filter the caller left unset;
\* get_workflow_executions always carries workflowId; list_workflows without
\* any filter sends no query string.
C3_UnsetFiltersAbsent ==
  \A i \in Slots :
    LET c == calls[i] IN
    ListingForwarded(c) =>
      /\ \A f \in FiltersOf(c.tool) :
           Arg(c.hasArgs, c.a, f) = Undef
             => FieldChars(f) \notin QueryKeys(c.req.url)
      /\ c.tool = "get_workflow_executions"
           => <<"w", "o", "r", "k", "f", "l", "o", "w", "I",
               "d">> \in QueryKeys(c.req.url)
      /\ ( /\ c.tool = "list_workflows"
           /\ \A f \in FiltersOf(c.tool) : Arg(c.hasArgs, c.a, f) = Undef )
           => ~HasQuery(c.req.url)

C3_Witness ==
  \E i \in Slots :
    LET c == calls[i] IN
    /\ ListingForwarded(c)
    /\ c.tool = "list_workflows"
    /\ c.hasArgs
    /\ Supplied(c.a) = {"active", "cursor"}
    /\ c.a["active"] = Bool(FALSE)
    /\ QueryKeys(c.req.url) = {<<"a", "c", "t", "i", "v", "e">>, <<"c", "u",
        "r", "s", "o", "r">>}
    /\ QueryValues(c.req.url, <<"a", "c", "t", "i", "v", "e">>) = {<<"f",
        "a", "l", "s", "e">>}

\* C4: the body of the PUT request of an update_workflow call has exactly
\* the fields the caller supplied in this call other than workflowId,
\* whatever calls came before, and the caller's argument object is as the
\* caller sent it.
C4_UpdateBodyIsSuppliedFields ==
  \A i \in Slots :
    LET c == calls[i] IN
    (Forwarded(c) /\ c.tool = "update_workflow") =>
      /\ c.req.method = "PUT"
      /\ c.req.hasBody
      /\ BodyKeys(c.req.body)
           = {FieldChars(f) :
                f \in Supplied(Spread(c.hasArgs, c.a)) \ {"workflowId"}}
      /\ <<"w", "o", "r", "k", "f", "l", "o", "w", "I",
          "d">> \notin BodyKeys(c.req.body)
      /\ c.plan.args = c.a

C4_Witness ==
  \E i \in Slots :
    LET c == calls[i] IN
    /\ Forwarded(c)
    /\ c.tool = "update_workflow"
    /\ wire = 2
    /\ Supplied(c.a) = {"workflowId", "name"}
    /\ c.req.body = <<<<<<"n", "a", "m", "e">>, <<"\"", "B", "\"">>>>>>

\* C5: a tool call whose outbound request is answered with a 4xx or 5xx
\* status ends in failure with an error that contains the status text; it
\* issued one request and returns no content.
C5_RemoteErrorSurfaced ==
  \A i \in Slots :
    LET c == calls[i] IN
    ( /\ c.kind = "tool"
      /\ c.pc = "done"
      /\ c.resp.status >= 400
      /\ c.resp.status <= 599 )
    => /\ c.outcome.st = "error"
       /\ c.outcome.mime = ""
       /\ Includes(c.outcome.text, c.resp.statusText)
       /\ c.sent = 1
       /\ wire >= 1

C5_Witness ==
  \E i \in Slots :
    LET c == calls[i] IN
    /\ c.kind = "tool"
    /\ c.pc = "done"
    /\ c.resp.status = 500
    /\ c.outcome = Failure(<<"N", "8", "N", " ", "A", "P", "I", " ", "e",
        "r", "r", "o", "r", ":", " ", "I", "n", "t", "e", "r", "n", "a", "l",
            " ", "S", "e", "r", "v", "e", "r", " ", "E", "r", "r", "o", "r">>)

\* the key of a resource URI note:///<key>
NoteKeyOf(uri) == Slice(uri, Len(NotePrefix))

\* C6: reading note:///<key> returns the content of the stored note with
\* that key as text/plain, and fails with a not-found error for every key
\* that is not the key of a stored note.
C6_ReadFindsStoredNotesOnly ==
  \A i \in Slots :
    LET c == calls[i]
        key == NoteKeyOf(c.uri)
    IN (c.kind = "read" /\ c.pc = "done") =>
         IF key \in DOMAIN InitialNotes
         THEN c.outcome
                = Outcome("ok", InitialNotes[key].content, TRUE, "text/plain")
         ELSE c.outcome = Failure(<<"N", "o", "t", "e",
             " ">> \o key \o <<" ", "n", "o", "t", " ", "f", "o", "u", "n",
                 "d">>)

\* the activate_workflow calls with a string identifier and a boolean flag
\* that the remote API answered with a success status and a JSON object
ActivateAnswered(c) ==
  /\ c.kind = "tool"
  /\ c.tool = "activate_workflow"
  /\ c.pc = "done"
  /\ c.a["workflowId"].t = "str"
  /\ c.a["workflowId"].s # <<>>
  /\ c.a["active"].t = "bool"
  /\ ResponseOk(c.resp)
  /\ c.resp.json

\* the one POST of an activate_workflow call, to the sub-path of its flag
ActivatePosted(c) ==
  /\ c.sent = 1
  /\ c.req.method = "POST"
  /\ ~c.req.hasBody
  /\ c.req.url
       = HostUrl(N8N_HOST) \o <<"w", "o", "r", "k", "f", "l", "o", "w", "s",
           "/">> \o c.a["workflowId"].s
           \o (IF c.a["active"].b THEN <<"/", "a", "c", "t", "i", "v", "a",
               "t", "e">> ELSE <<"/", "d", "e", "a", "c", "t", "i", "v", "a",
                   "t", "e">>)

ActivateWord(c) == IF c.a["active"].b THEN <<"a", "c", "t", "i", "v", "a",
    "t", "e", "d">> ELSE <<"d", "e", "a", "c", "t", "i", "v", "a", "t", "e",
        "d">>

\* C7 as claimed: an answered activate_workflow call made one POST to the
\* sub-path of its flag and its confirmation contains the supplied
\* identifier and the word activated or deactivated.
C7_ConfirmationNamesSuppliedId ==
  \A i \in Slots :
    LET c == calls[i] IN
    ActivateAnswered(c) =>
      /\ ActivatePosted(c)
      /\ c.outcome.st = "ok"
      /\ Includes(c.outcome.text, c.a["workflowId"].s)
      /\ Includes(c.outcome.text, ActivateWord(c))

\* C7 as amended: an answered activate_workflow call made one POST to the
\* sub-path of its flag and its confirmation is "Workflow <id> activated"
\* or "Workflow <id> deactivated" with the id of the response object, so it
\* contains the supplied identifier when the response carries that id.
C7_ConfirmationNamesResponseId ==
  \A i \in Slots :
    LET c == calls[i] IN
    ActivateAnswered(c) =>
      /\ ActivatePosted(c)
      /\ c.outcome.st = "ok"
      /\ c.outcome.text
           = <<"W", "o", "r", "k", "f", "l", "o", "w",
               " ">> \o ToStr(c.resp.data.id) \o <<" ">>
               \o ActivateWord(c)
      /\ ToStr(c.resp.data.id) = c.a["workflowId"].s
           => Includes(c.outcome.text, c.a["workflowId"].s)

C7_Witness ==
  \E i \in Slots :
    LET c == calls[i] IN
    /\ ActivateAnswered(c)
    /\ c.a["workflowId"] = Str(<<"4", "2">>)
    /\ c.a["active"] = Bool(TRUE)
    /\ EndsWith(c.req.url, <<"/", "a", "p", "i", "/", "v", "1", "/", "w",
        "o", "r", "k", "f", "l", "o", "w", "s", "/", "4", "2", "/", "a", "c",
            "t", "i", "v", "a", "t", "e">>)
    /\ c.outcome.text = <<"W", "o", "r", "k", "f", "l", "o", "w", " ", "4",
        "2", " ", "a", "c", "t", "i", "v", "a", "t", "e", "d">>

\* the part of a request URL that precedes the endpoint, the endpoint being
\* taken without its leading separator
EndpointSent(c) ==
  LET ep == c.plan.call.endpoint IN
  IF ep # <<>> /\ ep[1] = "/" THEN Tail(ep) ELSE ep

HostPart(c) ==
  SubSeq(c.req.url, 1, Len(c.req.url) - Len(EndpointSent(c)))

OneSeparator(c) ==
  /\ c.req.url = HostPart(c) \o EndpointSent(c)
  /\ EndsWith(HostPart(c), <<"a", "p", "i", "/", "v", "1", "/">>)
  /\ ~EndsWith(HostPart(c), <<"/", "/">>)
  /\ ~StartsWith(EndpointSent(c), <<"/">>)

\* C9 as claimed: for every configured base host, the host part of a request
\* URL ends with api/v1 and one separator, and one separator stands between
\* it and the endpoint.
C9_HostEndsWithApiVersion ==
  \A i \in Slots : Forwarded(calls[i]) => OneSeparator(calls[i])

\* the base hosts without the API version segment, and those that end with
\* it or with it and one separator
HostIsPlain(host) ==
  \/ ~Includes(host, ApiV1)
  \/ EndsWith(host, ApiV1)
  \/ EndsWith(host, ApiV1 \o <<"/">>)

\* C9 as amended: for every configured base host that does not contain
\* /api/v1, or that ends with /api/v1 or /api/v1/, the host part of a
\* request URL ends with api/v1 and one separator, and one separator stands
\* between it and the endpoint.
C9_PlainHostEndsWithApiVersion ==
  \A i \in Slots :
    (Forwarded(calls[i]) /\ HostIsPlain(N8N_HOST)) => OneSeparator(calls[i])

C9_Witness ==
  \E i \in Slots :
    LET c == calls[i] IN
    /\ Forwarded(c)
    /\ N8N_HOST = EnvBase \o ApiV1
    /\ c.tool = "get_workflow"
    /\ c.plan.call.endpoint = <<"/", "w", "o", "r", "k", "f", "l", "o", "w",
        "s", "/", "4", "2">>
    /\ c.req.url = <<"h", "t", "t", "p", ":", "/", "/", "h", "/", "a", "p",
        "i", "/", "v", "1", "/", "w", "o", "r", "k", "f", "l", "o", "w", "s",
            "/", "4", "2">>

\* the outcome of a request handled on its own
Alone(c) ==
  IF c.kind = "read" THEN ReadResourceResult(InitialNotes, c.uri)
  ELSE LET plan == CallToolStart(c.tool, c.hasArgs, c.a) IN
       IF plan.thrown.throws THEN Failure(plan.thrown.error)
       ELSE CallToolFinish(c.tool, plan.active, c.resp)

ErrorsAreLocalStep ==
  /\ Cardinality({j \in Slots : calls'[j] # calls[j]}) <= 1
  /\ \A j \in Slots :
       (calls[j].pc = "awaiting" /\ calls'[j] # calls[j])
         => /\ calls'[j].pc = "done"
            /\ calls'[j].resp \in ConcResponses
            /\ calls'[j].req = calls[j].req
  /\ \A j \in Slots :
       calls'[j].pc = "done" => calls'[j].outcome = Alone(calls'[j])
  /\ notes' = notes
  /\ N8N_HOST' = N8N_HOST
  /\ N8N_API_KEY' = N8N_API_KEY
  /\ proc = "serving" => proc' = "serving"

\* C8: with several requests in flight, a step changes the request of one
\* slot only; a request in flight ends only by the response to its own
\* outbound request and with the outcome it has on its own; the note store
\* and the configuration never change and a serving process keeps serving.
C8_ErrorsAreLocal == [][ErrorsAreLocalStep]_vars

C8_Witness ==
  \E i, j \in Slots :
    /\ i # j
    /\ calls[i].pc = "done"
    /\ calls[i].kind = "tool"
    /\ calls[i].resp.status = 500
    /\ calls[i].outcome.st = "error"
    /\ calls[j].pc = "done"
    /\ calls[j].kind = "tool"
    /\ calls[j].resp.status = 200
    /\ calls[j].outcome.st = "ok"

\* C10: a protocol request makes at most one outbound request, a resource
\* read none; a tool call that passes validation makes its own outbound
\* request and has no outcome before the response to it is in; as many
\* outbound requests are made as tool calls pass validation.
C10_OneRequestPerCall ==
  /\ wire = passed
  /\ Cardinality({i \in Slots : calls[i].pc = "awaiting"}) <= wire
  /\ \A i \in Slots :
       LET c == calls[i] IN
       /\ c.sent \in {0, 1}
       /\ c.kind = "read" => c.sent = 0
       /\ (Started(c) /\ ~c.plan.thrown.throws)
            => c.sent = 1 /\ c.req # NoRequest
       /\ c.pc = "awaiting" => c.sent = 1 /\ c.outcome = NoOutcome
       /\ (c.pc = "done" /\ c.sent = 1) => c.resp # NoResponse

C10_Witness ==
  \E i, j \in Slots :
    /\ i # j
    /\ calls[i].pc = "awaiting"
    /\ calls[j].pc = "awaiting"
    /\ calls[i].tool = "get_workflow"
    /\ calls[j].tool = "get_workflow"
    /\ calls[i].a = calls[j].a
    /\ calls[i].req = calls[j].req
    /\ wire = 2

====
